---- MODULE Spec2Model ----
(***************************************************************************)
(* The FSM interpreter of core_engine/fsm_core.cpp (class FsmSimulator     *)
(* behind its C API) as a state machine: one action per API call, each     *)
(* action the whole handler.                                               *)
(***************************************************************************)
EXTENDS Integers, Sequences, FiniteSets, TLC

\* ------------------------------------------------------------------ bounds
\* The tick counter and the event queue are unbounded in the code; the
\* actions stop growing them here.
MaxTick == 3
MaxQueue == 2
\* The longest state list of the documents SpecInitial loads.
MaxStates == 3

\* ------------------------------------------------------------------- state
VARIABLES
  states_,                \* std::vector<State>
  state_map_,             \* std::map<std::string, State *>: name -> index into states_, 0 = nullptr
  transitions_,           \* std::vector<Transition>
  current_tick_,          \* int
  current_state_path_,    \* std::vector<State *>
  variables_,             \* std::map<std::string, std::string>
  initial_variables_,     \* std::map<std::string, std::string>
  action_log_,            \* std::vector<std::string>, one {type, data} entry each
  pending_transition_,    \* std::unique_ptr<Transition>: <<>> = null, <<t>> = owns t
  internal_event_queue_,  \* std::vector<std::string>
  call,                   \* the last API call: for reset, step and resolve_condition
                          \* its argument and how it ended, "other" for the rest
  fault,                  \* the undefined or fatal step the last call ran into, "none" if none
  crashed                 \* the process was terminated by a fault

vars == <<states_, state_map_, transitions_, current_tick_, current_state_path_,
          variables_, initial_variables_, action_log_, pending_transition_,
          internal_event_queue_, call, fault, crashed>>

model_vars == <<states_, state_map_, transitions_>>

\* The faults that are undefined behaviour.
UndefinedFaults == {"back_on_empty", "dangling_read"}

\* The instance can be called: the process has not been terminated, and no
\* call has run into undefined behaviour (what follows an undefined step is
\* not followed further: its outcomes are recorded and the run ends there).
Alive == ~crashed /\ fault \notin UndefinedFaults

\* --------------------------------------------------------------- documents
\* nlohmann::json's value(key, default): the member when present, else the default.
Value(obj, key, default) == IF key \in DOMAIN obj THEN obj[key] ELSE default

\* An array element that is not an object: value() throws json::type_error on it.
NotAnObject == [not_an_object |-> TRUE]

Throws(elem) == "not_an_object" \in DOMAIN elem

JA(init) == [name |-> "A", entry_action |-> "inA", during_action |-> "duA",
             exit_action |-> "exA", is_initial |-> init]
JB(init) == [name |-> "B", entry_action |-> "inB", exit_action |-> "exB",
             is_initial |-> init, colour |-> "red"]
JC == [name |-> "C", is_final |-> TRUE]

JT(s, t, e, c, a) == [source |-> s, target |-> t, event |-> e, condition |-> c, action |-> a]

\* The model documents handed to load_fsm_from_json.  parses = FALSE: json::parse throws.
Docs == <<
  \* 1: A initial; a guarded and an unguarded transition on the same event,
  \*    a transition to a state the model does not have
  [parses |-> TRUE,
   states |-> <<JA(TRUE), JB(FALSE)>>,
   transitions |-> <<JT("A", "B", "e", "c1", "act1"),
                     JT("A", "B", "e", "", "act2"),
                     JT("A", "B", "f", "", "act3"),
                     JT("B", "Z", "e", "", "act4"),
                     JT("B", "A", "f", "", "")>>],
  \* 2: two states flagged initial, neither declared first; a guarded transition
  \*    to a missing state; a transition with no event field; two unguarded
  \*    transitions on the same event
  [parses |-> TRUE,
   states |-> <<JC, JB(TRUE), JA(TRUE)>>,
   transitions |-> <<JT("B", "Z", "e", "c2", "act6"),
                     JT("B", "C", "f", "", ""),
                     [source |-> "C", target |-> "A", action |-> "act7"],
                     JT("A", "B", "e", "", ""),
                     JT("B", "A", "f", "", "act8")>>],
  \* 3: not JSON
  [parses |-> FALSE, states |-> <<>>, transitions |-> <<>>],
  \* 4: a malformed element in "transitions"
  [parses |-> TRUE,
   states |-> <<JA(TRUE)>>,
   transitions |-> <<JT("A", "B", "e", "c1", "act1"), NotAnObject>>]
>>

DocIds == 1..Len(Docs)

\* The event names a caller passes.  step maps a null pointer to ""; the
\* others are ordinary C strings.
StepEvents == {"", "e", "f"}
QueueEvents == {"", "e"}

\* The variable documents handed to set_initial_variables_from_json:
\* members as name -> JSON value; parses = FALSE: json::parse throws.
JNum(n) == [json |-> "number", n |-> n]
VarDocs == <<
  [parses |-> TRUE, members |-> [k \in {} |-> JNum(0)]],
  [parses |-> TRUE, members |-> [k \in {"x"} |-> JNum(1)]],
  [parses |-> FALSE, members |-> [k \in {} |-> JNum(0)]]
>>

VarDocIds == 1..Len(VarDocs)

\* json::dump() of a value: its serialized text.
Dump(v) == IF v.json = "number" THEN ToString(v.n) ELSE "null"

\* ------------------------------------------------------------ the C++ types
\* struct State, filled from one element of "states".
ParseState(s_data) ==
  [name |-> Value(s_data, "name", ""),
   entry_action |-> Value(s_data, "entry_action", ""),
   during_action |-> Value(s_data, "during_action", ""),
   exit_action |-> Value(s_data, "exit_action", ""),
   is_initial |-> Value(s_data, "is_initial", FALSE),
   is_final |-> Value(s_data, "is_final", FALSE)]

\* struct Transition, filled from one element of "transitions".
ParseTransition(t_data) ==
  [source |-> Value(t_data, "source", ""),
   target |-> Value(t_data, "target", ""),
   event |-> Value(t_data, "event", ""),
   condition |-> Value(t_data, "condition", ""),
   action |-> Value(t_data, "action", "")]

\* A State *: the element of states_ it was taken from (idx), whether that
\* element still exists (live), and the State it designated when it was taken.
Ptr(i, s) == [idx |-> i, live |-> TRUE, was |-> s]

\* states_.clear() destroys the elements: every State * held elsewhere dangles.
Invalidate(path) ==
  IF path = <<>> THEN <<>> ELSE [k \in 1..Len(path) |-> [path[k] EXCEPT !.live = FALSE]]

EmptyMap == [n \in {} |-> 0]

\* One entry of action_log_ (kept as the {type, data} pair that is dumped).
LogEntry(type, data) == [type |-> type, data |-> data]

\* logAction: appends only a non-empty payload.
logAction(log, type, data) == IF data # "" THEN Append(log, LogEntry(type, data)) ELSE log

\* executeAction: logs only a non-empty payload.
executeAction(log, type, code) == IF code # "" THEN logAction(log, type, code) ELSE log

\* ------------------------------------------------------------ loadFromJson
\* for (s_data : data["states"]) { ...; states_.push_back(s); }: the states
\* pushed before an element throws.
RECURSIVE ParseStates(_)
ParseStates(elems) ==
  IF elems = <<>> \/ Throws(Head(elems)) THEN <<>>
  ELSE <<ParseState(Head(elems))>> \o ParseStates(Tail(elems))

\* for (t_data : data["transitions"]) { ...; transitions_.push_back(t); }
RECURSIVE ParseTransitions(_)
ParseTransitions(elems) ==
  IF elems = <<>> \/ Throws(Head(elems)) THEN <<>>
  ELSE <<ParseTransition(Head(elems))>> \o ParseTransitions(Tail(elems))

ElementThrows(elems) == \E k \in 1..Len(elems) : Throws(elems[k])

\* std::map::operator[] assignment.
MapPut(m, key, val) == [x \in DOMAIN m \cup {key} |-> IF x = key THEN val ELSE m[x]]

\* for (auto &state : states_) state_map_[state.name] = &state;
RECURSIVE BuildStateMap(_, _, _)
BuildStateMap(states, i, m) ==
  IF i > Len(states) THEN m
  ELSE BuildStateMap(states, i + 1, MapPut(m, states[i].name, i))

\* loadFromJson: the three containers are cleared first, then filled until
\* the document is exhausted or something throws.
loadFromJson(doc) ==
  IF ~doc.parses
  THEN [threw |-> TRUE, states |-> <<>>, map |-> EmptyMap, transitions |-> <<>>]
  ELSE IF ElementThrows(doc.states)
  THEN [threw |-> TRUE, states |-> ParseStates(doc.states), map |-> EmptyMap,
        transitions |-> <<>>]
  ELSE [threw |-> ElementThrows(doc.transitions),
        states |-> ParseStates(doc.states),
        map |-> BuildStateMap(ParseStates(doc.states), 1, EmptyMap),
        transitions |-> ParseTransitions(doc.transitions)]

\* What a read through a dangling State * (or through back() of an empty
\* vector) can give: any State object the storage has held or may hold.
GarbageStates == UNION {{s[k] : k \in 1..Len(s)} : s \in {ParseStates(Docs[d].states) : d \in DocIds}}

\* The record of a call kept in the variable call.
Call(op) == [op |-> op, ev |-> "", verdict |-> FALSE, kind |-> "", n |-> 0]

\* load_fsm_from_json's return value: false when loadFromJson threw.
load_fsm_from_json(doc) == ~loadFromJson(doc).threw

\* A load that also drops the pending transition.
LoadDroppingPending(d) ==
  LET r == loadFromJson(Docs[d]) IN
  /\ Alive
  /\ states_' = r.states
  /\ state_map_' = r.map
  /\ transitions_' = r.transitions
  /\ current_state_path_' = Invalidate(current_state_path_)
  /\ pending_transition_' = <<>>
  /\ call' = Call("other")
  /\ fault' = "none"
  /\ UNCHANGED <<current_tick_, variables_, initial_variables_, action_log_,
                 internal_event_queue_, crashed>>

Load(d) ==
  LET r == loadFromJson(Docs[d]) IN
  /\ Alive
  /\ states_' = r.states
  /\ state_map_' = r.map
  /\ transitions_' = r.transitions
  /\ current_state_path_' = Invalidate(current_state_path_)
  /\ call' = Call("other")
  /\ fault' = "none"
  /\ UNCHANGED <<current_tick_, variables_, initial_variables_, action_log_,
                 pending_transition_, internal_event_queue_, crashed>>

\* -------------------------------------------------------------------- reset
\* for (auto &s : states_) if (s.is_initial) { initial_state = &s; break; }
\* 0 stands for nullptr.
RECURSIVE ScanInitial(_, _)
ScanInitial(states, i) ==
  IF i > Len(states) THEN 0
  ELSE IF states[i].is_initial THEN i
  ELSE ScanInitial(states, i + 1)

\* A choice that takes the first-declared state whatever the flags.
InitialStateFirstDeclared(states) == IF states = <<>> THEN 0 ELSE 1

\* reset's choice of the initial state (0 = nullptr).
InitialState(states) ==
  LET first == ScanInitial(states, 1) IN
  IF first = 0 /\ states # <<>> THEN 1 ELSE first

\* enterState: push the state, log its entry action.
enterState(path, log, i) ==
  [path |-> Append(path, Ptr(i, states_[i])),
   log |-> executeAction(log, "ENTRY_STATE", states_[i].entry_action)]

\* A reset that does not clear the log before entering the initial state.
ResetAppendingLog ==
  LET i == InitialState(states_)
      e == enterState(<<>>, action_log_, i)
  IN
  /\ Alive
  /\ variables_' = initial_variables_
  /\ current_tick_' = 0
  /\ pending_transition_' = <<>>
  /\ internal_event_queue_' = <<>>
  /\ current_state_path_' = IF i # 0 THEN e.path ELSE <<>>
  /\ action_log_' = IF i # 0 THEN e.log ELSE action_log_
  /\ call' = Call("reset")
  /\ fault' = "none"
  /\ UNCHANGED <<states_, state_map_, transitions_, initial_variables_, crashed>>

Reset ==
  LET i == InitialState(states_)
      e == enterState(<<>>, <<>>, i)
  IN
  /\ Alive
  /\ variables_' = initial_variables_
  /\ current_tick_' = 0
  /\ pending_transition_' = <<>>
  /\ internal_event_queue_' = <<>>
  /\ current_state_path_' = IF i # 0 THEN e.path ELSE <<>>
  /\ action_log_' = IF i # 0 THEN e.log ELSE <<>>
  /\ call' = Call("reset")
  /\ fault' = "none"
  /\ UNCHANGED <<states_, state_map_, transitions_, initial_variables_, crashed>>

\* ------------------------------------------------------ reading the path
\* What current_state_path_.back()-> runs into: back() of an empty vector,
\* a State * whose State was destroyed by a later load, or nothing.
ReadFault(path) ==
  IF path = <<>> THEN "back_on_empty"
  ELSE IF ~path[Len(path)].live THEN "dangling_read"
  ELSE "none"

\* The State objects *current_state_path_.back() can read as.
Views(path) ==
  IF ReadFault(path) = "none" THEN {states_[path[Len(path)].idx]} ELSE GarbageStates

\* pop_back (on an empty vector: undefined, read here as leaving it empty).
PopBack(path) == IF path = <<>> THEN <<>> ELSE SubSeq(path, 1, Len(path) - 1)

\* state_map_[key] of executeTransition: operator[] default-inserts a null
\* pointer under a key the map does not have.
MapIndex(m, key) == IF key \in DOMAIN m THEN m ELSE MapPut(m, key, 0)

\* An executeTransition that runs the transition action before the exit
\* action.
executeTransitionActionFirst(trans, leaf, path, log, map) ==
  LET log1 == executeAction(log, "TRANSITION_ACTION", trans.action)
      log2 == executeAction(log1, "EXIT_STATE", leaf.exit_action)
      path1 == PopBack(path)
      map1 == MapIndex(map, trans.target)
      new_state == map1[trans.target]
  IN IF new_state # 0
     THEN [path |-> enterState(path1, log2, new_state).path,
           log |-> enterState(path1, log2, new_state).log,
           map |-> map1]
     ELSE [path |-> path1, log |-> log2, map |-> map1]

\* --------------------------------------------------------- executeTransition
\* leaf is the State read through current_state_path_.back().
executeTransition(trans, leaf, path, log, map) ==
  LET log1 == executeAction(log, "EXIT_STATE", leaf.exit_action)
      log2 == executeAction(log1, "TRANSITION_ACTION", trans.action)
      path1 == PopBack(path)
      map1 == MapIndex(map, trans.target)
      new_state == map1[trans.target]
  IN IF new_state # 0
     THEN [path |-> enterState(path1, log2, new_state).path,
           log |-> enterState(path1, log2, new_state).log,
           map |-> map1]
     ELSE [path |-> path1, log |-> log2, map |-> map1]

\* A scan that prefers an unguarded match to an earlier guarded one.
ScanTransitionsUnguardedFirst(trans, i, name, event) ==
  LET found == {j \in i..Len(trans) : trans[j].source = name /\ trans[j].event = event}
      unguarded == {j \in found : trans[j].condition = ""}
      from == IF unguarded # {} THEN unguarded ELSE found
  IN IF found = {} THEN 0 ELSE CHOOSE j \in from : \A k \in from : j <= k

\* A scan that returns the last match from i on instead of the first.
ScanTransitionsLast(trans, i, name, event) ==
  LET found == {j \in i..Len(trans) : trans[j].source = name /\ trans[j].event = event}
  IN IF found = {} THEN 0 ELSE CHOOSE j \in found : \A k \in found : k <= j

\* --------------------------------------------------------------------- step
\* for (const auto &trans : transitions_) if (source and event match) ...:
\* the index of the first match from i on, 0 if there is none.
RECURSIVE ScanTransitions(_, _, _, _)
ScanTransitions(trans, i, name, event) ==
  IF i > Len(trans) THEN 0
  ELSE IF trans[i].source = name /\ trans[i].event = event THEN i
  ELSE ScanTransitions(trans, i + 1, name, event)

\* A tick rule that counts every dequeued event.
TickOnEveryDequeue(tick, event_name_str) == tick + 1

\* The tick rule applied to each dequeued event.
TickOnDequeue(tick, event_name_str) ==
  IF tick = 0 \/ event_name_str # "" THEN tick + 1 ELSE tick

\* A loop that gives up at the first event, matched or not.
ProcessQueueOnce(queue, tick, name, event_name_str, n) ==
  IF queue = <<>> THEN [queue |-> queue, tick |-> tick, t |-> 0, n |-> n]
  ELSE [queue |-> Tail(queue), tick |-> TickOnDequeue(tick, event_name_str),
        t |-> ScanTransitions(transitions_, 1, name, Head(queue)), n |-> n + 1]

\* The while loop of step up to the event that matches a transition:
\* the queue and tick it leaves, the index t of the matched transition
\* (0: the queue ran empty) and the number n of events dequeued.
RECURSIVE ProcessQueue(_, _, _, _, _)
ProcessQueue(queue, tick, name, event_name_str, n) ==
  IF queue = <<>> THEN [queue |-> queue, tick |-> tick, t |-> 0, n |-> n]
  ELSE LET current_event == Head(queue)
           tick1 == TickOnDequeue(tick, event_name_str)
           t == ScanTransitions(transitions_, 1, name, current_event)
       IN IF t # 0
          THEN [queue |-> Tail(queue), tick |-> tick1, t |-> t, n |-> n + 1]
          ELSE ProcessQueue(Tail(queue), tick1, name, event_name_str, n + 1)

\* A push of the external event at the head of the queue.
PushExternalFront(queue, event_name_str) ==
  IF event_name_str # "" THEN <<event_name_str>> \o queue ELSE queue

\* The queue after step's push_back of a non-empty external event.
PushExternal(queue, event_name_str) ==
  IF event_name_str # "" THEN Append(queue, event_name_str) ELSE queue

\* step on a machine with a current state, leaf being what back() reads as.
StepRunning(event_name_str, leaf) ==
  LET q0 == PushExternal(internal_event_queue_, event_name_str)
      tick0 == IF event_name_str = "" THEN current_tick_ + 1 ELSE current_tick_
      log0 == IF event_name_str = ""
              THEN executeAction(<<>>, "DURING_ACTION", leaf.during_action)
              ELSE <<>>
      r == ProcessQueue(q0, tick0, leaf.name, event_name_str, 0)
      trans == transitions_[r.t]
      x == executeTransition(trans, leaf, current_state_path_, log0, state_map_)
  IN
  /\ internal_event_queue_' = r.queue
  /\ current_tick_' = r.tick
  /\ r.tick <= MaxTick
  /\ IF r.t = 0
     THEN /\ action_log_' = log0
          /\ call' = [Call("step") EXCEPT !.ev = event_name_str, !.kind = "drained", !.n = r.n]
          /\ UNCHANGED <<pending_transition_, current_state_path_, state_map_>>
     ELSE IF trans.condition # ""
     THEN /\ action_log_' = logAction(log0, "AWAIT_CONDITION", trans.condition)
          /\ pending_transition_' = <<trans>>
          /\ call' = [Call("step") EXCEPT !.ev = event_name_str, !.kind = "suspend", !.n = r.n]
          /\ UNCHANGED <<current_state_path_, state_map_>>
     ELSE /\ action_log_' = x.log
          /\ current_state_path_' = x.path
          /\ state_map_' = x.map
          /\ call' = [Call("step") EXCEPT !.ev = event_name_str, !.kind = "fire", !.n = r.n]
          /\ UNCHANGED pending_transition_
  /\ fault' = ReadFault(current_state_path_)
  /\ UNCHANGED <<states_, transitions_, variables_, initial_variables_, crashed>>

\* The process dies in the call (a fault's other outcome).
Crash(c, f) ==
  /\ crashed' = TRUE
  /\ fault' = f
  /\ call' = [c EXCEPT !.kind = "crash"]
  /\ UNCHANGED <<states_, state_map_, transitions_, current_tick_, current_state_path_,
                 variables_, initial_variables_, action_log_, pending_transition_,
                 internal_event_queue_>>

Step(event_name_str) ==
  /\ Alive
  /\ event_name_str # "" => Len(internal_event_queue_) < MaxQueue
  /\ \/ /\ current_state_path_ = <<>>
        /\ action_log_' = <<>>
        /\ internal_event_queue_' = PushExternal(internal_event_queue_, event_name_str)
        /\ call' = [Call("step") EXCEPT !.ev = event_name_str, !.kind = "halted"]
        /\ fault' = "none"
        /\ UNCHANGED <<states_, state_map_, transitions_, current_tick_,
                       current_state_path_, variables_, initial_variables_,
                       pending_transition_, crashed>>
     \/ /\ current_state_path_ # <<>>
        /\ \E leaf \in Views(current_state_path_) : StepRunning(event_name_str, leaf)
     \/ /\ current_state_path_ # <<>>
        /\ ReadFault(current_state_path_) # "none"
        /\ Crash([Call("step") EXCEPT !.ev = event_name_str], ReadFault(current_state_path_))

\* A resolve_condition that logs the aborting INFO entry for a false verdict
\* whether or not a transition is pending.
ResolveConditionAlwaysLogging(result) ==
  /\ Alive
  /\ \/ /\ pending_transition_ = <<>> \/ ~result
        /\ action_log_' = IF result THEN <<>>
                          ELSE logAction(<<>>, "INFO", "Condition failed, transition aborted.")
        /\ pending_transition_' = <<>>
        /\ call' = [Call("resolve_condition") EXCEPT
                      !.verdict = result,
                      !.kind = IF pending_transition_ = <<>> THEN "noop" ELSE "aborted"]
        /\ fault' = "none"
        /\ UNCHANGED <<states_, state_map_, transitions_, current_tick_,
                       current_state_path_, variables_, initial_variables_,
                       internal_event_queue_, crashed>>
     \/ /\ pending_transition_ # <<>>
        /\ result
        /\ \E leaf \in Views(current_state_path_) :
             LET x == executeTransition(pending_transition_[1], leaf,
                                        current_state_path_, <<>>, state_map_)
             IN /\ action_log_' = x.log
                /\ current_state_path_' = x.path
                /\ state_map_' = x.map
        /\ pending_transition_' = <<>>
        /\ call' = [Call("resolve_condition") EXCEPT !.verdict = result, !.kind = "executed"]
        /\ fault' = ReadFault(current_state_path_)
        /\ UNCHANGED <<states_, transitions_, current_tick_, variables_,
                       initial_variables_, internal_event_queue_, crashed>>
     \/ /\ pending_transition_ # <<>>
        /\ result
        /\ ReadFault(current_state_path_) # "none"
        /\ Crash([Call("resolve_condition") EXCEPT !.verdict = result],
                 ReadFault(current_state_path_))

\* -------------------------------------------------------- resolve_condition
ResolveCondition(result) ==
  /\ Alive
  /\ \/ /\ pending_transition_ = <<>>
        /\ action_log_' = <<>>
        /\ call' = [Call("resolve_condition") EXCEPT !.verdict = result, !.kind = "noop"]
        /\ fault' = "none"
        /\ UNCHANGED <<states_, state_map_, transitions_, current_tick_,
                       current_state_path_, variables_, initial_variables_,
                       pending_transition_, internal_event_queue_, crashed>>
     \/ /\ pending_transition_ # <<>>
        /\ ~result
        /\ action_log_' = logAction(<<>>, "INFO", "Condition failed, transition aborted.")
        /\ pending_transition_' = <<>>
        /\ call' = [Call("resolve_condition") EXCEPT !.verdict = result, !.kind = "aborted"]
        /\ fault' = "none"
        /\ UNCHANGED <<states_, state_map_, transitions_, current_tick_,
                       current_state_path_, variables_, initial_variables_,
                       internal_event_queue_, crashed>>
     \/ /\ pending_transition_ # <<>>
        /\ result
        /\ \E leaf \in Views(current_state_path_) :
             LET x == executeTransition(pending_transition_[1], leaf,
                                        current_state_path_, <<>>, state_map_)
             IN /\ action_log_' = x.log
                /\ current_state_path_' = x.path
                /\ state_map_' = x.map
        /\ pending_transition_' = <<>>
        /\ call' = [Call("resolve_condition") EXCEPT !.verdict = result, !.kind = "executed"]
        /\ fault' = ReadFault(current_state_path_)
        /\ UNCHANGED <<states_, transitions_, current_tick_, variables_,
                       initial_variables_, internal_event_queue_, crashed>>
     \/ /\ pending_transition_ # <<>>
        /\ result
        /\ ReadFault(current_state_path_) # "none"
        /\ Crash([Call("resolve_condition") EXCEPT !.verdict = result],
                 ReadFault(current_state_path_))

\* A queue_internal_event that inserts at the head.
QueueInternalEventFront(event_name) ==
  /\ Alive
  /\ Len(internal_event_queue_) < MaxQueue
  /\ internal_event_queue_' = <<event_name>> \o internal_event_queue_
  /\ call' = Call("other")
  /\ fault' = "none"
  /\ UNCHANGED <<states_, state_map_, transitions_, current_tick_, current_state_path_,
                 variables_, initial_variables_, action_log_, pending_transition_, crashed>>

\* ----------------------------------------------------- queue_internal_event
QueueInternalEvent(event_name) ==
  /\ Alive
  /\ Len(internal_event_queue_) < MaxQueue
  /\ internal_event_queue_' = Append(internal_event_queue_, event_name)
  /\ call' = Call("other")
  /\ fault' = "none"
  /\ UNCHANGED <<states_, state_map_, transitions_, current_tick_, current_state_path_,
                 variables_, initial_variables_, action_log_, pending_transition_, crashed>>

\* ------------------------------------------------------ setInitialVariables
\* initial_variables_[el.key()] = el.value().dump() for every member.
DumpMembers(members) == [k \in DOMAIN members |-> Dump(members[k])]

\* set_initial_variables_from_json has no try: what json::parse throws
\* leaves the call, with initial_variables_ already cleared, and reaches the
\* caller or terminates the process.
SetInitialVariables(v) ==
  /\ Alive
  /\ IF VarDocs[v].parses
     THEN /\ initial_variables_' = DumpMembers(VarDocs[v].members)
          /\ fault' = "none"
          /\ crashed' = FALSE
     ELSE /\ initial_variables_' = EmptyMap
          /\ fault' = "uncaught_exception"
          /\ crashed' \in BOOLEAN
  /\ call' = Call("other")
  /\ UNCHANGED <<states_, state_map_, transitions_, current_tick_, current_state_path_,
                 variables_, action_log_, pending_transition_, internal_event_queue_>>

\* ---------------------------------------------------------- getAndClearLogJson
DrainLog ==
  /\ Alive
  /\ action_log_' = <<>>
  /\ call' = Call("other")
  /\ fault' = "none"
  /\ UNCHANGED <<states_, state_map_, transitions_, current_tick_, current_state_path_,
                 variables_, initial_variables_, pending_transition_,
                 internal_event_queue_, crashed>>

\* getCurrentStateName, for a path whose back() can be read.
getCurrentStateName ==
  IF current_state_path_ = <<>> THEN "Halted"
  ELSE states_[current_state_path_[Len(current_state_path_)].idx].name

\* --------------------------------------------------------------------- spec
\* create_fsm: FsmSimulator() { reset(); } on empty containers.
Init ==
  /\ states_ = <<>>
  /\ state_map_ = EmptyMap
  /\ transitions_ = <<>>
  /\ current_tick_ = 0
  /\ current_state_path_ = <<>>
  /\ variables_ = EmptyMap
  /\ initial_variables_ = EmptyMap
  /\ action_log_ = <<>>
  /\ pending_transition_ = <<>>
  /\ internal_event_queue_ = <<>>
  /\ call = Call("create")
  /\ fault = "none"
  /\ crashed = FALSE

Next ==
  \/ \E d \in DocIds : Load(d)
  \/ \E v \in VarDocIds : SetInitialVariables(v)
  \/ Reset
  \/ \E e \in StepEvents : Step(e)
  \/ \E b \in BOOLEAN : ResolveCondition(b)
  \/ \E e \in QueueEvents : QueueInternalEvent(e)
  \/ DrainLog

Spec == Init /\ [][Next]_vars

\* ------------------------------------------- one model, every state list
\* A session on one loaded model, the model's states being any list of up
\* to MaxStates states, each flagged initial or not.
StateElements == {JA(TRUE), JA(FALSE), JB(TRUE), JB(FALSE)}

StateLists == UNION {[1..k -> StateElements] : k \in 0..MaxStates}

InitialDocs ==
  {[parses |-> TRUE, states |-> l, transitions |-> Docs[1].transitions] : l \in StateLists}

\* create_fsm, then load_fsm_from_json of one of InitialDocs.
InitLoaded ==
  /\ \E doc \in InitialDocs :
       /\ states_ = loadFromJson(doc).states
       /\ state_map_ = loadFromJson(doc).map
       /\ transitions_ = loadFromJson(doc).transitions
  /\ current_tick_ = 0
  /\ current_state_path_ = <<>>
  /\ variables_ = EmptyMap
  /\ initial_variables_ = EmptyMap
  /\ action_log_ = <<>>
  /\ pending_transition_ = <<>>
  /\ internal_event_queue_ = <<>>
  /\ call = Call("other")
  /\ fault = "none"
  /\ crashed = FALSE

NextLoaded ==
  \/ Reset
  \/ \E e \in StepEvents : Step(e)
  \/ \E b \in BOOLEAN : ResolveCondition(b)

SpecInitial == InitLoaded /\ [][NextLoaded]_vars


\* ---------------------------------------------------- words of the claims
Back == current_state_path_[Len(current_state_path_)]

\* Halted: no current state.
Halted == current_state_path_ = <<>>

\* Non-halted: the path ends in a current state, a state of the loaded Model.
Running == current_state_path_ # <<>> /\ Back.live

\* Every State * of the path points at a state of the loaded Model.
PathValid == \A k \in 1..Len(current_state_path_) : current_state_path_[k].live

CurrentState == states_[Back.idx]

TransitionTypes == {"EXIT_STATE", "TRANSITION_ACTION", "ENTRY_STATE"}

IsType(T, entry) == entry.type \in T
OfTypes(log, T) == SelectSeq(log, LAMBDA entry : IsType(T, entry))

\* The payloads that are logged: the non-empty ones, in the order given.
NonEmptyEntries(entries) == SelectSeq(entries, LAMBDA entry : entry.data # "")

\* The transitions leaving the state called name on event, by declaration index.
Matching(name, event) ==
  {i \in 1..Len(transitions_) :
     transitions_[i].source = name /\ transitions_[i].event = event}

FirstMatching(name, event) ==
  CHOOSE i \in Matching(name, event) : \A j \in Matching(name, event) : i <= j

\* The position in queue of the first event some transition from name
\* matches, 0 if no queued event matches any.
FirstMatchedPos(queue, name) ==
  IF \E k \in 1..Len(queue) : Matching(name, queue[k]) # {}
  THEN CHOOSE k \in 1..Len(queue) :
         /\ Matching(name, queue[k]) # {}
         /\ \A j \in 1..(k - 1) : Matching(name, queue[j]) = {}
  ELSE 0

Behind(queue, k) == SubSeq(queue, k + 1, Len(queue))

\* ------------------------------------------------------------------ claims

\* C1: no call runs executeTransition without a current state: its
\* current_state_path_.back() is never taken of an empty path, whatever calls
\* came before, step calls between a suspension and resolve_condition(true)
\* included.
C1_ExecuteTransitionHasCurrentState == fault # "back_on_empty"

\* C1's case: a step has halted the machine while a transition was pending.
C1_PendingWhileHalted == pending_transition_ # <<>> /\ Halted /\ call.op = "step"

\* C2: a load that reports failure leaves the Model and the whole Simulation
\* State exactly as they were before the call.
C2_FailedLoadChangesNothing ==
  [][\A d \in DocIds :
       (Load(d) /\ ~load_fsm_from_json(Docs[d])) =>
         /\ UNCHANGED <<states_, state_map_, transitions_>>
         /\ UNCHANGED <<current_tick_, variables_, pending_transition_,
                        internal_event_queue_, action_log_>>
         /\ PathValid => PathValid']_vars

\* C2's case: a load has reported failure on an instance that had a model
\* and a current state.
C2_FailedLoadAfterRun ==
  /\ call.op = "other" /\ states_ = <<>> /\ current_state_path_ # <<>>

\* The queue step works on: the queue with the external event pushed.
Q0(ev) == PushExternal(internal_event_queue_, ev)

\* This step is a call of step(ev).  Every call of step records itself in
\* call, which is looked at first: it tells most steps apart at once.
Stepped(ev) == call'.op = "step" /\ call'.ev = ev /\ Step(ev)

\* The position in Q0(ev) of the first event that matches a transition from
\* the current state, and that event's first matching transition.
MatchedPos(ev) == FirstMatchedPos(Q0(ev), CurrentState.name)
MatchedTransition(ev) ==
  transitions_[FirstMatching(CurrentState.name, Q0(ev)[MatchedPos(ev)])]

\* C3: a step on a non-halted machine that dequeues an event whose first
\* matching transition (source = current state's name, event = the dequeued
\* event) has a non-empty condition logs exactly one AWAIT_CONDITION entry,
\* carrying that condition, stores that transition as pending_transition,
\* leaves the current state unchanged, consumes the event and leaves the
\* events queued behind it untouched and in order.
C3_StepSuspendsOnGuard ==
  [][\A ev \in StepEvents :
       (Running /\ Stepped(ev) /\ MatchedPos(ev) # 0
          /\ MatchedTransition(ev).condition # "") =>
         /\ OfTypes(action_log_', {"AWAIT_CONDITION"})
              = <<LogEntry("AWAIT_CONDITION", MatchedTransition(ev).condition)>>
         /\ OfTypes(action_log_', TransitionTypes) = <<>>
         /\ pending_transition_' = <<MatchedTransition(ev)>>
         /\ current_state_path_' = current_state_path_
         /\ internal_event_queue_' = Behind(Q0(ev), MatchedPos(ev))]_vars

\* C3's case: a step has suspended on a guard with an event still queued
\* behind the one it consumed.
C3_SuspendedWithQueueBehind ==
  /\ call.op = "step" /\ call.kind = "suspend" /\ fault = "none"
  /\ internal_event_queue_ # <<>>
  /\ pending_transition_ # <<>>

\* C7: step("") on a non-halted machine advances the tick by exactly 1,
\* whatever the tick and the queue were, and its log holds exactly one
\* DURING_ACTION entry, the current state's during_action, when that is
\* non-empty, and none when it is empty.
C7_EmptyStepTicksOnce ==
  [][(Running /\ Stepped("")) =>
       /\ current_tick_' = current_tick_ + 1
       /\ OfTypes(action_log_', {"DURING_ACTION"})
            = NonEmptyEntries(<<LogEntry("DURING_ACTION", CurrentState.during_action)>>)]_vars

\* C7's case: step("") has run at tick 0 with events queued, in a state
\* that has a during action.
C7_EmptyStepFromTickZero ==
  /\ call.op = "step" /\ call.ev = "" /\ call.n >= 1 /\ fault = "none"
  /\ current_tick_ = 1
  /\ OfTypes(action_log_, {"DURING_ACTION"}) # <<>>

\* C10: on a non-halted machine, the events step dequeues that match no
\* transition from the current state are dropped, with no EXIT_STATE,
\* TRANSITION_ACTION, ENTRY_STATE or AWAIT_CONDITION entry and no change of
\* the current state, and the loop goes on to the next event; a step that
\* returns having neither executed a transition nor suspended leaves the
\* queue empty.
C10_UnmatchedEventsDropped ==
  [][\A ev \in StepEvents :
       (Running /\ Stepped(ev)) =>
         /\ MatchedPos(ev) = 0 =>
              /\ OfTypes(action_log_', TransitionTypes \cup {"AWAIT_CONDITION"}) = <<>>
              /\ UNCHANGED <<current_state_path_, pending_transition_>>
              /\ internal_event_queue_' = <<>>
              /\ call'.n = Len(Q0(ev))
         /\ MatchedPos(ev) # 0 =>
              /\ call'.kind \in {"fire", "suspend"}
              /\ call'.n = MatchedPos(ev)
              /\ internal_event_queue_' = Behind(Q0(ev), MatchedPos(ev))
         /\ call'.kind \notin {"fire", "suspend"} => internal_event_queue_' = <<>>]_vars

\* C10's case: a step has dropped an unmatched event and gone on to fire
\* the transition of the next one.
C10_DroppedThenFired ==
  /\ call.op = "step" /\ call.kind = "fire" /\ call.n = 2 /\ fault = "none"

\* The states of the Model called name, by declaration index.
Named(name) == {i \in 1..Len(states_) : states_[i].name = name}

\* What executing transition t from the current state is to log and leave:
\* EXIT_STATE (the current state's exit action), TRANSITION_ACTION,
\* ENTRY_STATE (the entered state's entry action), the non-empty ones in that
\* order after the entries before; the target current if the Model has a
\* state of that name (else, with strict = FALSE, the machine halted).
Executed(t, before, strict) ==
  /\ IF Named(t.target) # {} \/ strict
     THEN /\ Len(current_state_path_') = Len(current_state_path_)
          /\ Running'
          /\ CurrentState'.name = t.target
          /\ action_log_' = before \o
               NonEmptyEntries(<<LogEntry("EXIT_STATE", CurrentState.exit_action),
                                 LogEntry("TRANSITION_ACTION", t.action),
                                 LogEntry("ENTRY_STATE", CurrentState'.entry_action)>>)
     ELSE /\ Halted'
          /\ action_log_' = before \o
               NonEmptyEntries(<<LogEntry("EXIT_STATE", CurrentState.exit_action),
                                 LogEntry("TRANSITION_ACTION", t.action)>>)

\* C4: resolve_condition(true) with a transition pending logs exactly the
\* non-empty ones of EXIT_STATE (current state's exit action),
\* TRANSITION_ACTION, ENTRY_STATE (target's entry action) in that order,
\* makes the target the current state (read here as: or halts the machine
\* when the Model has no state of that name) and clears pending_transition;
\* resolve_condition(false) leaves the current state, logs exactly one INFO
\* entry and clears pending_transition; neither changes tick, variables or
\* queue.  Stated for every state with a pending transition whose path holds
\* no dangling pointer.
C4_ResolveExecutesPending ==
  [][(pending_transition_ # <<>> /\ PathValid) =>
       /\ ResolveCondition(TRUE) =>
            /\ Running
            /\ Executed(pending_transition_[1], <<>>, FALSE)
            /\ pending_transition_' = <<>>
            /\ UNCHANGED <<current_tick_, variables_, internal_event_queue_>>
       /\ ResolveCondition(FALSE) =>
            /\ UNCHANGED current_state_path_
            /\ Len(action_log_') = 1 /\ action_log_'[1].type = "INFO"
            /\ pending_transition_' = <<>>
            /\ UNCHANGED <<current_tick_, variables_, internal_event_queue_>>]_vars

\* The log a step("") starts with: the during action, if any.
DuringLog(ev) ==
  IF ev = ""
  THEN NonEmptyEntries(<<LogEntry("DURING_ACTION", CurrentState.during_action)>>)
  ELSE <<>>

Count(log, type) == Len(OfTypes(log, {type}))

\* A step call executes at most one transition.
AtMostOneTransition ==
  \A ev \in StepEvents :
    (PathValid /\ Stepped(ev)) =>
      /\ \A type \in TransitionTypes : Count(action_log_', type) <= 1
      /\ (current_state_path_' # current_state_path_) => call'.kind = "fire"

\* When the first matched event's first matching transition is unguarded,
\* step executes it and leaves the events behind that event in the queue.
FiresUnguarded(strict) ==
  \A ev \in StepEvents :
    (Running /\ Stepped(ev) /\ MatchedPos(ev) # 0
       /\ MatchedTransition(ev).condition = "") =>
      /\ Executed(MatchedTransition(ev), DuringLog(ev), strict)
      /\ internal_event_queue_' = Behind(Q0(ev), MatchedPos(ev))
      /\ UNCHANGED pending_transition_

\* C5 as claimed: a step executes at most one transition, and when an
\* unguarded transition fires the log holds EXIT_STATE, TRANSITION_ACTION,
\* ENTRY_STATE (the non-empty ones) in that order, the current state becomes
\* the target, and the events queued behind the firing one stay queued.
C5_FiredTargetBecomesCurrent == [][AtMostOneTransition /\ FiresUnguarded(TRUE)]_vars

\* C5 as amended: the same, the current state becoming the target when the
\* Model has a state of that name, the machine halting (no ENTRY_STATE
\* entry) when it has none.
C5_FiresAtMostOneTransition == [][AtMostOneTransition /\ FiresUnguarded(FALSE)]_vars

\* C5's case: a step has fired an unguarded transition that logged all three
\* entries, with an event left queued behind it.
C5_FiredWithQueueBehind ==
  /\ call.op = "step" /\ call.kind = "fire" /\ fault = "none"
  /\ Len(OfTypes(action_log_, TransitionTypes)) = 3
  /\ internal_event_queue_ # <<>>

\* C6: a step with a non-empty external event on a non-halted machine
\* advances the tick by exactly 1, however many events it dequeues.
C6_ExternalStepTicksOnce ==
  [][\A ev \in StepEvents \ {""} :
       (Running /\ Stepped(ev)) => current_tick_' = current_tick_ + 1]_vars

\* C6's case: a step with an external event has dequeued two events.
C6_ExternalStepDequeuedTwo ==
  /\ call.op = "step" /\ call.ev # "" /\ call.n = 2 /\ fault = "none"

\* C8: after reset the current state is the first state in declaration
\* order flagged is_initial, the first-declared state if none is flagged,
\* and the machine is halted (current_state_name "Halted") if the Model has
\* no states.
C8_ResetSelectsInitial ==
  call.op = "reset" =>
    IF states_ = <<>>
    THEN Halted /\ getCurrentStateName = "Halted"
    ELSE /\ Len(current_state_path_) = 1
         /\ Running
         /\ getCurrentStateName = CurrentState.name
         /\ IF \E j \in 1..Len(states_) : states_[j].is_initial
            THEN /\ CurrentState.is_initial
                 /\ \A j \in 1..(Back.idx - 1) : ~states_[j].is_initial
            ELSE Back.idx = 1

\* C8's case: reset has run on a model with several states flagged
\* initial, none of them declared first.
C8_ResetAmongSeveralInitial ==
  /\ call.op = "reset"
  /\ Cardinality({j \in 1..Len(states_) : states_[j].is_initial}) >= 2
  /\ ~states_[1].is_initial

\* C9 as claimed: once pending_transition is set, only resolve_condition
\* leaves it empty.
C9_OnlyResolveClearsPending ==
  [][(pending_transition_ # <<>> /\ pending_transition_' = <<>>) =>
       \E b \in BOOLEAN : ResolveCondition(b)]_vars

\* C9 as amended: once pending_transition is set, only resolve_condition
\* and reset leave it empty; step, queue_internal_event, load,
\* set_initial_variables and drain_log never do.
C9_OnlyResolveOrResetClearsPending ==
  [][(pending_transition_ # <<>> /\ pending_transition_' = <<>>) =>
       \/ \E b \in BOOLEAN : ResolveCondition(b)
       \/ Reset]_vars

\* C9's case: a step has fired a transition while another was pending, and
\* it is pending still.
C9_SteppedWhilePending ==
  /\ pending_transition_ # <<>>
  /\ call.op = "step" /\ call.kind = "fire" /\ fault = "none"

\* C11: a transition whose event field is empty matches nothing: whatever
\* step and queue_internal_event are called with, no step executes such a
\* transition or makes it the pending transition.
C11_EmptyEventMatchesNothing ==
  [][\A ev \in StepEvents :
       (Running /\ Stepped(ev) /\ call'.kind \in {"fire", "suspend"}) =>
         MatchedTransition(ev).event # ""]_vars

\* C11's case: the empty event name is queued while the current state is
\* the source of a transition with an empty event field.
C11_EmptyEventQueued ==
  /\ Running
  /\ Matching(CurrentState.name, "") # {}
  /\ \E k \in 1..Len(internal_event_queue_) : internal_event_queue_[k] = ""

\* C12: a step on a halted machine leaves the tick, the (empty) path and
\* pending_transition as they were and the log empty; its only effect is
\* that a non-empty event name is appended to the tail of the queue, the
\* events already queued staying where they are.
C12_HaltedStepOnlyEnqueues ==
  [][\A ev \in StepEvents :
       (Halted /\ Stepped(ev)) =>
         /\ UNCHANGED <<current_tick_, current_state_path_, pending_transition_>>
         /\ action_log_' = <<>>
         /\ internal_event_queue_' =
              IF ev # "" THEN internal_event_queue_ \o <<ev>> ELSE internal_event_queue_
         /\ UNCHANGED <<states_, state_map_, transitions_, variables_,
                        initial_variables_>>]_vars

\* C12's case: a step with a non-empty event name has returned on a halted
\* machine that had events queued and a log not yet drained.
C12_HaltedStepEnqueued ==
  /\ call.op = "step" /\ call.kind = "halted" /\ call.ev # ""
  /\ Halted
  /\ Len(internal_event_queue_) >= 2

\* C13: after any sequence of operations reset leaves tick = 0, the queue
\* empty, no pending transition, variables equal to the initial-variables
\* snapshot, and a log holding only the ENTRY_STATE entry of the selected
\* initial state (nothing if its entry action is empty or the Model has no
\* state); and only set_initial_variables changes the snapshot.
C13_ResetRestoresSnapshot ==
  [][/\ (call'.op = "reset" /\ Reset) =>
          /\ current_tick_' = 0
          /\ internal_event_queue_' = <<>>
          /\ pending_transition_' = <<>>
          /\ variables_' = initial_variables_
          /\ action_log_' =
               IF states_ = <<>> THEN <<>>
               ELSE NonEmptyEntries(<<LogEntry("ENTRY_STATE", CurrentState'.entry_action)>>)
     /\ (initial_variables_' # initial_variables_) =>
          \E v \in VarDocIds : SetInitialVariables(v)]_vars

\* C13's case: reset has run with a non-empty snapshot set and has logged
\* the initial state's entry action.
C13_ResetWithSnapshot ==
  /\ call.op = "reset"
  /\ initial_variables_ # EmptyMap
  /\ variables_ = initial_variables_
  /\ action_log_ # <<>>

\* C14: resolve_condition called while no transition is pending is a no-op
\* for either verdict: current state, tick, variables, queue and
\* pending_transition are unchanged and the log is left empty.
C14_ResolveWithoutPendingIsNoOp ==
  [][\A b \in BOOLEAN :
       (pending_transition_ = <<>> /\ call'.op = "resolve_condition"
          /\ ResolveCondition(b)) =>
         /\ UNCHANGED <<current_state_path_, current_tick_, variables_,
                        internal_event_queue_, pending_transition_>>
         /\ action_log_' = <<>>]_vars

\* C14's case: resolve_condition has returned as a no-op on a running
\* machine with events queued.
C14_SpuriousResolve ==
  /\ call.op = "resolve_condition" /\ call.kind = "noop"
  /\ Running
  /\ internal_event_queue_ # <<>>

\* C15: step and resolve_condition never modify the Model: the state
\* sequence, the transition sequence and the name-to-state map (key set and
\* values) are after the call what they were before it, also when the
\* executed transition's target is not a state of the Model.  Stated for
\* the calls made on a path that holds no dangling pointer.
C15_StepAndResolveKeepModel ==
  [][(/\ PathValid
      /\ call'.op \in {"step", "resolve_condition"}
      /\ \/ \E ev \in StepEvents : Step(ev)
         \/ \E b \in BOOLEAN : ResolveCondition(b)) =>
       UNCHANGED <<states_, transitions_, state_map_>>]_vars

\* C15's case: a step has executed a transition whose target is not a
\* state of the Model.
C15_FiredToMissingTarget ==
  /\ call.op = "step" /\ call.kind = "fire" /\ fault = "none"
  /\ Halted

\* C16: executing a transition whose target is not a state of the Model,
\* from step or from resolve_condition(true), logs the source state's exit
\* action and the transition action when non-empty and no ENTRY_STATE entry,
\* and leaves the machine halted (empty path, current_state_name "Halted");
\* from then on only reset gives the machine a current state again.
C16_MissingTargetHaltsUntilReset ==
  [][/\ \A ev \in StepEvents :
          (/\ Running /\ Stepped(ev) /\ MatchedPos(ev) # 0
           /\ MatchedTransition(ev).condition = ""
           /\ Named(MatchedTransition(ev).target) = {}) =>
            /\ Executed(MatchedTransition(ev), DuringLog(ev), FALSE)
            /\ getCurrentStateName' = "Halted"
     /\ (/\ Running /\ pending_transition_ # <<>>
         /\ call'.op = "resolve_condition" /\ ResolveCondition(TRUE)
         /\ Named(pending_transition_[1].target) = {}) =>
            /\ Executed(pending_transition_[1], <<>>, FALSE)
            /\ getCurrentStateName' = "Halted"
     /\ (Halted /\ ~Halted') => Reset]_vars

\* C16's case: a guarded transition to a missing state has been executed by
\* resolve_condition(true), leaving the machine halted.
C16_ResolvedToMissingTarget ==
  /\ call.op = "resolve_condition" /\ call.kind = "executed" /\ fault = "none"
  /\ Halted

\* The queue with event name ev put at its tail, the empty name not at all.
AtTail(queue, ev) == queue \o (IF ev # "" THEN <<ev>> ELSE <<>>)

\* C17: the queue is FIFO across calls: queue_internal_event appends at the
\* tail and changes nothing else (tick, current state, log, pending
\* transition); step appends its external event at the tail and dequeues
\* from the head, so the events it examines are a prefix of the queue in
\* enqueueing order, each one before the last having matched nothing, and
\* the external event is examined only when every event queued before it
\* has been.
C17_QueueIsFifo ==
  [][/\ \A e \in QueueEvents :
          (call'.op = "other" /\ QueueInternalEvent(e)) =>
            /\ internal_event_queue_' = internal_event_queue_ \o <<e>>
            /\ UNCHANGED <<current_tick_, current_state_path_, action_log_,
                           pending_transition_, variables_>>
     /\ \A ev \in StepEvents :
          /\ (Halted /\ Stepped(ev)) =>
               internal_event_queue_' = AtTail(internal_event_queue_, ev)
          /\ (Running /\ Stepped(ev)) =>
               LET q == AtTail(internal_event_queue_, ev)
                   n == call'.n
               IN /\ n \in 0..Len(q)
                  /\ internal_event_queue_' = SubSeq(q, n + 1, Len(q))
                  /\ \A k \in 1..(n - 1) : Matching(CurrentState.name, q[k]) = {}
                  /\ call'.kind \in {"fire", "suspend"} =>
                       n >= 1 /\ Matching(CurrentState.name, q[n]) # {}]_vars

\* C17's case: a step has examined its external event after an event that
\* was queued before it, and suspended on the external one.
C17_ExternalEventExaminedLast ==
  /\ call.op = "step" /\ call.ev = "e" /\ call.kind = "suspend"
  /\ call.n = 2 /\ fault = "none"

\* C18: for a dequeued event step selects the first transition in
\* declaration order whose source is the current state's name and whose
\* event is the dequeued event, and no later one: a guarded first match
\* suspends the step on it even when a later match is unguarded, an
\* unguarded first match is the one executed, and after
\* resolve_condition(false) the consumed event is not tried again (nothing
\* is executed, the queue and the current state stay as they are).
C18_FirstDeclaredMatchOnly ==
  [][/\ \A ev \in StepEvents :
          (Running /\ Stepped(ev) /\ MatchedPos(ev) # 0) =>
            IF MatchedTransition(ev).condition # ""
            THEN /\ call'.kind = "suspend"
                 /\ pending_transition_' = <<MatchedTransition(ev)>>
                 /\ UNCHANGED current_state_path_
                 /\ OfTypes(action_log_', TransitionTypes) = <<>>
            ELSE /\ call'.kind = "fire"
                 /\ Executed(MatchedTransition(ev), DuringLog(ev), FALSE)
                 /\ UNCHANGED pending_transition_
     /\ (/\ pending_transition_ # <<>>
         /\ call'.op = "resolve_condition" /\ ResolveCondition(FALSE)) =>
            /\ UNCHANGED <<current_state_path_, internal_event_queue_, current_tick_>>
            /\ OfTypes(action_log_', TransitionTypes \cup {"AWAIT_CONDITION"}) = <<>>
            /\ pending_transition_' = <<>>]_vars

\* C18's case: a step has suspended on a guarded transition that is declared
\* before an unguarded transition with the same source and event.
C18_SuspendedBeforeUnguardedMatch ==
  /\ call.op = "step" /\ call.kind = "suspend" /\ fault = "none"
  /\ pending_transition_ # <<>>
  /\ \E j \in 1..Len(transitions_) :
       /\ transitions_[j].source = pending_transition_[1].source
       /\ transitions_[j].event = pending_transition_[1].event
       /\ transitions_[j].condition = ""

\* C19: whenever pending_transition is set, its source is the name of the
\* current state, step and queue_internal_event calls made while a condition
\* is awaited included.  Stated for the states whose path holds no dangling
\* pointer.
C19_PendingSourceIsCurrentState ==
  (pending_transition_ # <<>> /\ PathValid) =>
    /\ ~Halted
    /\ CurrentState.name = pending_transition_[1].source

\* C19's case: a step has been made while a condition was awaited.
C19_SteppedWhileAwaiting ==
  /\ pending_transition_ # <<>>
  /\ call.op = "step" /\ call.kind = "drained" /\ fault = "none"
  /\ Running

\* C20: in every reachable state the path holds at most one entry, and an
\* entry it holds is a state of the currently loaded Model, whatever load,
\* reset, step and resolve_condition calls were made, loads not followed by
\* reset included.
C20_PathWithinLoadedModel ==
  /\ Len(current_state_path_) <= 1
  /\ PathValid

\* C20's case: a load has returned on a machine that had a current state.
C20_LoadedWhileRunning ==
  /\ call.op = "other"
  /\ current_state_path_ # <<>>
  /\ states_ # <<>>
  /\ ~PathValid

====
